---- MODULE Spec2Model ----
(***************************************************************************)
(* Batch operation engine of clove-front: the worker pool of               *)
(* BatchCookieModal.handleSubmit (bulk import) and                         *)
(* BatchRefreshModal.startProcessing (bulk refresh).                       *)
(*                                                                         *)
(* Scheduling.  The code runs on the JavaScript event loop: a worker       *)
(* (processOne) runs without interruption from one await to the next, so   *)
(* the claim (nextIndex++), the test of cancelledRef, the write of         *)
(* 'processing' and the invocation of the remote operation are ONE step,   *)
(* and a UI handler (handleCancel, handleClose) runs only between such     *)
(* steps: during a run, only while every worker that has not exited is     *)
(* awaiting its remote call.  Spec keeps both.  The order in which workers *)
(* standing at the head of their loop take their next claim is left open.  *)
(*                                                                         *)
(* SpecAnyTime is the same pool with cancel allowed at every step          *)
(* boundary, the loop head included.  The event loop never yields there;   *)
(* SpecAnyTime is the pool under an arbitrary scheduler, and its           *)
(* behaviours include those of Spec.                                       *)
(*                                                                         *)
(* setResults(prev => ...) updaters are applied in the order they were     *)
(* queued, each to the result of the one before; the model applies each    *)
(* at the moment it is queued.                                             *)
(*                                                                         *)
(* Strings are sequences of tokens: "SP" a whitespace character, "SK" the  *)
(* text 'sessionKey=', "SID" the text 'sk-ant-sid01-', anything else a     *)
(* payload character.  Indices are 0-based as in the code; sequences are   *)
(* 1-based, so item i lives at results[i + 1].                             *)
(*                                                                         *)
(* SpecList is the useAccountList hook of the account page (filter, sort   *)
(* state, pagination) driven by AccountFilters and AccountPagination. The  *)
(* hook and the modals share no state: the pool specifications leave the   *)
(* hook in its initial state and SpecList leaves the modal unopened.       *)
(***************************************************************************)
EXTENDS Integers, Sequences, FiniteSets, TLC

\* ---------------------------------------------------------------- bounds
MaxLines == 3
MaxUuids == 2
MaxConcurrency == 3
MaxCancelCalls == 2
MaxAccounts == 21

\* ------------------------------------------------------------- constants
DefaultConcurrency == 3
ConcurrencyOptions == {1, 2, 3, 5, 10, 20}

Undefined == "undefined"
InvalidFormatError == "Cookie format invalid"
DefaultAddError == "add failed"
DefaultRefreshError == "refresh failed"

\* lines a user may paste: a bare session key, a full cookie followed by
\* whitespace, an indented line that is no session key, a blank line
RawLines ==
    { <<"SID", "x">>, <<"SK", "SID", "x", "SP">>, <<"SP", "x">>, <<"SP">> }
Uuids == {"u1", "u2"}

\* outcome of one remote call: resolved, or rejected. A rejection has
\* error.response.data.detail absent (no response at all), a string, or an
\* object that may hold a message
NoDetail == [kind |-> "absent", text |-> Undefined, message |-> Undefined]
OpOutcomes ==
    { [ok |-> TRUE,  detail |-> NoDetail],
      [ok |-> FALSE, detail |-> NoDetail],
      [ok |-> FALSE, detail |-> [kind |-> "string", text |-> "invalid",
                                 message |-> Undefined]],
      [ok |-> FALSE, detail |-> [kind |-> "object", text |-> Undefined,
                                 message |-> "invalid"]],
      [ok |-> FALSE, detail |-> [kind |-> "object", text |-> Undefined,
                                 message |-> ""]],
      [ok |-> FALSE, detail |-> [kind |-> "object", text |-> Undefined,
                                 message |-> Undefined]] }

\* history value of an index whose remote call has not returned
NoOutcome == [result |-> "none", message |-> Undefined]

Sites == {"import", "refresh"}

\* useAccountList: useState(20) and the choices of the page size selector
DefaultPageSize == 20
PAGE_SIZE_OPTIONS == {10, 20, 50, 100}

\* null of JavaScript
Null == "null"

SortFields == {"status", "auth_type", "last_used", "account_type", "resets_at"}
SortDirections == {"asc", "desc"}
\* the fields of SORT_OPTIONS other than the default entry
SortOptionFields == {"status", "account_type", "last_used", "resets_at"}
StatusFilters == {"all", "valid", "invalid", "rate_limited"}
AuthTypeFilters == {"all", "cookie_only", "oauth_only", "both"}
AccountTypeFilters == {"all", "free", "pro", "max"}

\* texts typed into the search box, as sequences of characters
SearchQueries == { <<>>, <<"A">> }

\* the i-th account the server may return: identifiers differ, and status,
\* authentication and plan vary independently along the list
AccountAt(i) ==
    [organization_uuid |-> <<(IF i % 2 = 1 THEN "a" ELSE "b"), ToString(i)>>,
     status    |-> <<"valid", "rate_limited", "invalid">>[(i % 3) + 1],
     auth_type |-> <<"cookie_only", "oauth_only", "both">>[((i \div 3) % 3) + 1],
     is_pro    |-> (i \div 2) % 3 = 1,
     is_max    |-> (i \div 2) % 3 = 2]

\* lengths of the lists setAccounts is called with: none, half, one full
\* default page, one more than that
AccountCounts == {0, MaxAccounts \div 2, MaxAccounts - 1, MaxAccounts}
AccountLists == { [i \in 1..n |-> AccountAt(i)] : n \in AccountCounts }

\* ----------------------------------------------------------------- state
VARIABLES
    site,               \* which modal this component instance is
    cookies,            \* BatchCookieModal: textarea content, a sequence of lines
    organizationUuids,  \* BatchRefreshModal: the prop
    concurrency,        \* useState(3)
    isProcessing,       \* useState(false)
    showResults,        \* useState(false)
    results,            \* useState([])
    cancelledRef,       \* useRef(false)
    itemList,           \* cookieLines / organizationUuids captured by the run
    nextIndex,          \* let nextIndex = 0
    totalCount,         \* const totalCount
    workers,            \* the processOne() promises: position, and the index i
                        \* of the iteration while its remote call is awaited
    phase,              \* position of handleSubmit / startProcessing
    closed,             \* onClose() has been called
    removedCount,       \* const removedCount (import)
    claimLog,           \* history: every value handed out by nextIndex++
    invoked,            \* history: remote calls made, per index
    outcomeOf,          \* history: how the remote call of each index returned
    sweeps,             \* history: executions of the final sweep
    cancelCalls,        \* history: calls of handleCancel
    atCancel,           \* history: the items in processing at the first handleCancel
    statusLog,          \* history: the statuses written to each index, in order
    accounts,           \* useAccountList: useState([])
    searchQuery,        \* useState('')
    deferredSearchQuery,\* useDeferredValue(searchQuery)
    statusFilter,       \* useState('all')
    authTypeFilter,     \* useState('all')
    accountTypeFilter,  \* useState('all')
    sortField,          \* useState(null)
    sortDirection,      \* useState(null)
    page,               \* useState(1)
    pageSize            \* useState(20)

\* the state of the modal and of its run
modalVars == << site, cookies, organizationUuids, concurrency, isProcessing,
                showResults, results, cancelledRef, itemList, nextIndex,
                totalCount, workers, phase, closed, removedCount, claimLog,
                invoked, outcomeOf, sweeps, cancelCalls, atCancel, statusLog >>

\* the state of useAccountList
listVars == << accounts, searchQuery, deferredSearchQuery, statusFilter,
               authTypeFilter, accountTypeFilter, sortField, sortDirection,
               page, pageSize >>

vars == << site, cookies, organizationUuids, concurrency, isProcessing,
           showResults, results, cancelledRef, itemList, nextIndex, totalCount,
           workers, phase, closed, removedCount, claimLog, invoked, outcomeOf,
           sweeps, cancelCalls, atCancel, statusLog, accounts, searchQuery,
           deferredSearchQuery, statusFilter, authTypeFilter, accountTypeFilter,
           sortField, sortDirection, page, pageSize >>

\* --------------------------------------------------------- pure helpers
Min(a, b) == IF a <= b THEN a ELSE b

SeqsUpTo(S, n) == UNION { [1..k -> S] : k \in 0..n }

RECURSIVE TrimStart(_)
TrimStart(s) ==
    IF s # <<>> /\ Head(s) = "SP" THEN TrimStart(Tail(s)) ELSE s

RECURSIVE TrimEnd(_)
TrimEnd(s) ==
    IF s # <<>> /\ s[Len(s)] = "SP" THEN TrimEnd(SubSeq(s, 1, Len(s) - 1)) ELSE s

Trim(s) == TrimEnd(TrimStart(s))

StartsWith(s, p) == Len(s) >= Len(p) /\ SubSeq(s, 1, Len(p)) = p

\* cookies.split('\n').map(line => line.trim()).filter(line => line.length > 0)
RECURSIVE RawLinesOf(_)
RawLinesOf(text) ==
    IF text = <<>> THEN <<>>
    ELSE LET line == Trim(Head(text))
         IN  IF Len(line) > 0 THEN <<line>> \o RawLinesOf(Tail(text))
             ELSE RawLinesOf(Tail(text))

\* [...new Set(rawLines)]: insertion order, first occurrence kept
RECURSIVE UniqueFrom(_, _)
UniqueFrom(s, seen) ==
    IF s = <<>> THEN <<>>
    ELSE IF Head(s) \in seen THEN UniqueFrom(Tail(s), seen)
         ELSE <<Head(s)>> \o UniqueFrom(Tail(s), seen \cup {Head(s)})

\* mutant: of equal lines the last one is kept, not the first
RECURSIVE UniqueLinesKeepLast(_)
UniqueLinesKeepLast(rawLines) ==
    IF rawLines = <<>> THEN <<>>
    ELSE IF \E n \in DOMAIN Tail(rawLines) : Tail(rawLines)[n] = Head(rawLines)
         THEN UniqueLinesKeepLast(Tail(rawLines))
         ELSE <<Head(rawLines)>> \o UniqueLinesKeepLast(Tail(rawLines))

\* mutant: the lines are used as they come
UniqueLinesAll(rawLines) == rawLines

UniqueLines(rawLines) == UniqueFrom(rawLines, {})

validateAndProcessCookie(cookieValue) ==
    LET trimmed == Trim(cookieValue)
        processedValue == IF StartsWith(trimmed, <<"SID">>)
                          THEN <<"SK">> \o trimmed ELSE trimmed
    IN  [isValid |-> StartsWith(processedValue, <<"SK", "SID">>),
         processedValue |-> processedValue]

\* ------------------------------------------------ results (setResults)
\* the optional payload fields of a result item, and what a resolved call
\* puts there: response.data.organization_uuid (import), or
\* data.previous_status and data.new_status (refresh)
NoPayload ==
    [organizationUuid |-> Undefined, previousStatus |-> Undefined,
     newStatus |-> Undefined]
ResponsePayload(st) ==
    IF st = "import"
    THEN [NoPayload EXCEPT !.organizationUuid = "org"]
    ELSE [NoPayload EXCEPT !.previousStatus = "invalid", !.newStatus = "valid"]

InitialResults(list) ==
    [k \in 1..Len(list) |->
        [item |-> list[k], status |-> "pending",
         error |-> Undefined, payload |-> NoPayload]]

\* updated[i]?.status === 'pending' -> status: 'cancelled'
MarkCancelledIfPending(prev, i) ==
    IF i + 1 \in DOMAIN prev /\ prev[i + 1].status = "pending"
    THEN [prev EXCEPT ![i + 1].status = "cancelled"]
    ELSE prev

\* mutant: the item is not marked before it is worked on
MarkProcessingSkipped(prev, i) == prev

MarkProcessing(prev, i) == [prev EXCEPT ![i + 1].status = "processing"]

MarkInvalid(prev, i) ==
    [prev EXCEPT ![i + 1].status = "error", ![i + 1].error = InvalidFormatError]

\* mutant: a result that arrives after cancellation is discarded
MarkSuccessUnlessCancelled(prev, i, payload) ==
    IF cancelledRef
    THEN [prev EXCEPT ![i + 1].status = "cancelled"]
    ELSE [prev EXCEPT ![i + 1].status = "success", ![i + 1].payload = payload]

\* mutant: the write starts from the array of the submission, not from prev
MarkSuccessStale(prev, i, payload) ==
    [InitialResults(itemList) EXCEPT ![i + 1].status = "success",
                                     ![i + 1].payload = payload]

MarkSuccess(prev, i, payload) ==
    [prev EXCEPT ![i + 1].status = "success", ![i + 1].payload = payload]

\* mutant: the catch block records the message but not the status
MarkErrorKeepsStatus(prev, i, errorMessage) ==
    [prev EXCEPT ![i + 1].error = errorMessage]

\* mutant: a failure that arrives after cancellation is recorded as cancelled
MarkErrorUnlessCancelled(prev, i, errorMessage) ==
    IF cancelledRef
    THEN [prev EXCEPT ![i + 1].status = "cancelled"]
    ELSE [prev EXCEPT ![i + 1].status = "error", ![i + 1].error = errorMessage]

\* mutant: the catch block drops the message of the response
MarkErrorGeneric(prev, i, errorMessage) ==
    [prev EXCEPT ![i + 1].status = "error", ![i + 1].error = DefaultAddError]

\* mutant: the catch block writes from the array of the submission, not
\* from prev
MarkErrorStale(prev, i, errorMessage) ==
    [InitialResults(itemList) EXCEPT ![i + 1].status = "error",
                                     ![i + 1].error = errorMessage]

MarkError(prev, i, errorMessage) ==
    [prev EXCEPT ![i + 1].status = "error", ![i + 1].error = errorMessage]

\* history of setResults: every index whose status differs between the
\* array before and the array after an updater gets the new status appended
LogWrites(log, before, after) ==
    [k \in DOMAIN log |->
        IF after[k].status # before[k].status
        THEN Append(log[k], after[k].status) ELSE log[k]]

\* mutant: the sweep is missing
SweepNothing(prev) == prev

\* mutant: the sweep tests r.status !== 'success'
SweepNonSuccess(prev) ==
    [k \in DOMAIN prev |->
        IF prev[k].status # "success"
        THEN [prev[k] EXCEPT !.status = "cancelled"] ELSE prev[k]]

\* prev.map(r => r.status === 'pending' ? { ...r, status: 'cancelled' } : r)
SweepPending(prev) ==
    [k \in DOMAIN prev |->
        IF prev[k].status = "pending"
        THEN [prev[k] EXCEPT !.status = "cancelled"] ELSE prev[k]]

\* a || b of JavaScript: undefined and '' are falsy
Truthy(x) == x # Undefined /\ x # ""

\* mutant: the extracted message is stored without a fallback
ErrorMessageRaw(st, outcome) == outcome.detail.message

\* import:  error.response?.data?.detail?.message || fallback
\* refresh: detail?.message || detail || fallback, and the fallback again
\*          when what came out is not a string
ErrorMessage(st, outcome) ==
    LET detail == outcome.detail
        message == IF detail.kind = "object" THEN detail.message ELSE Undefined
    IN  IF st = "import"
        THEN IF Truthy(message) THEN message ELSE DefaultAddError
        ELSE LET errorMessage ==
                    IF Truthy(message)
                    THEN [isString |-> TRUE, value |-> message]
                    ELSE IF detail.kind = "string" /\ Truthy(detail.text)
                    THEN [isString |-> TRUE, value |-> detail.text]
                    ELSE IF detail.kind = "object"
                    THEN [isString |-> FALSE, value |-> Undefined]
                    ELSE [isString |-> TRUE, value |-> DefaultRefreshError]
             IN  IF errorMessage.isString THEN errorMessage.value
                 ELSE DefaultRefreshError

\* const i = nextIndex++
ClaimedIndex(cursor) == cursor
\* mutant: the cursor is read but not advanced
AdvanceCursorStuck(cursor) == cursor

\* mutant: the cursor advances by two
AdvanceCursorSkip(cursor) == cursor + 2

AdvanceCursor(cursor) == cursor + 1

\* mutant: one worker per item, whatever the requested concurrency
WorkerCountPerItem(requested, total) == total

\* mutant: as many workers as requested, however few the items
WorkerCountRequested(requested, total) == requested

WorkerCount(requested, total) == Min(requested, total)

\* mutant: workers never look at the flag
CancelRequestedNever(flag) == FALSE

\* mutant: the flag is a state value captured by the closure of the run,
\* which was false when the run started
CancelRequestedStale(flag) == FALSE

\* if (cancelledRef.current), read by a worker right after its claim
CancelRequested(flag) == flag

CountStatus(res, st) == Cardinality({ k \in DOMAIN res : res[k].status = st })

NoSnapshot == [taken |-> FALSE, processing |-> {}]

getProcessingCount == CountStatus(results, "processing")
getSuccessCount == CountStatus(results, "success")
getErrorCount == CountStatus(results, "error")
getCancelledCount == CountStatus(results, "cancelled")
getPendingCount == CountStatus(results, "pending")

\* mutant: cancelled items are not counted as processed
getProgressNoCancelled ==
    IF Len(results) = 0 THEN [num |-> 0, den |-> 1]
    ELSE [num |-> 100 * Cardinality({ k \in DOMAIN results :
                        results[k].status \in {"success", "error"} }),
          den |-> Len(results)]

\* getProgress(): (processed / results.length) * 100, kept as the fraction
\* num / den; 0 when there are no results
getProgress ==
    IF Len(results) = 0 THEN [num |-> 0, den |-> 1]
    ELSE LET processed ==
                Cardinality({ k \in DOMAIN results :
                    \/ results[k].status = "success"
                    \/ results[k].status = "error"
                    \/ results[k].status = "cancelled" })
         IN  [num |-> 100 * processed, den |-> Len(results)]

\* copyFailedCookies: results.filter(r => r.status === 'error')
\* .map(r => r.cookie).join('\n'), as the sequence of its lines
IsError(r) == r.status = "error"
failedCookies ==
    LET failed == SelectSeq(results, IsError)
    IN  [n \in DOMAIN failed |-> failed[n].item]

Terminal == {"success", "error", "cancelled"}

WorkerIds == DOMAIN workers
InFlight == { w \in WorkerIds : workers[w].pc = "await" }
Live == { w \in WorkerIds : workers[w].pc # "exited" }

Init ==
    /\ site \in Sites
    /\ cookies = <<>>
    /\ organizationUuids \in
          (IF site = "refresh" THEN SeqsUpTo(Uuids, MaxUuids) ELSE {<<>>})
    /\ concurrency = DefaultConcurrency
    /\ isProcessing = FALSE
    /\ showResults = FALSE
    /\ results = <<>>
    /\ cancelledRef = FALSE
    /\ itemList = <<>>
    /\ nextIndex = 0
    /\ totalCount = 0
    /\ workers = <<>>
    /\ phase = "idle"
    /\ closed = FALSE
    /\ removedCount = 0
    /\ claimLog = <<>>
    /\ invoked = <<>>
    /\ outcomeOf = <<>>
    /\ sweeps = 0
    /\ cancelCalls = 0
    /\ atCancel = NoSnapshot
    /\ statusLog = <<>>
    /\ accounts = <<>>
    /\ searchQuery = <<>>
    /\ deferredSearchQuery = <<>>
    /\ statusFilter = "all"
    /\ authTypeFilter = "all"
    /\ accountTypeFilter = "all"
    /\ sortField = Null
    /\ sortDirection = Null
    /\ page = 1
    /\ pageSize = DefaultPageSize

\* ------------------------------------------------------------ UI inputs
\* onChange={e => setCookies(e.target.value)}; the textarea exists only
\* while the form is shown
SetCookies ==
    /\ site = "import" /\ ~showResults /\ ~closed
    /\ \E text \in SeqsUpTo(RawLines, MaxLines) :
          /\ text # cookies
          /\ cookies' = text
    /\ UNCHANGED << site, organizationUuids, concurrency, isProcessing,
                    showResults, results, cancelledRef, itemList, nextIndex,
                    totalCount, workers, phase, closed, removedCount, claimLog,
                    invoked, outcomeOf, sweeps, cancelCalls, atCancel, statusLog >>
    /\ UNCHANGED listVars

\* onValueChange={v => setConcurrency(Number(v))}; the selector is rendered
\* only while the form is shown
SetConcurrency ==
    /\ ~showResults /\ ~closed
    /\ \E c \in { o \in ConcurrencyOptions : o <= MaxConcurrency } :
          /\ c # concurrency
          /\ concurrency' = c
    /\ UNCHANGED << site, cookies, organizationUuids, isProcessing,
                    showResults, results, cancelledRef, itemList, nextIndex,
                    totalCount, workers, phase, closed, removedCount, claimLog,
                    invoked, outcomeOf, sweeps, cancelCalls, atCancel, statusLog >>
    /\ UNCHANGED listVars

\* --------------------------------------------------------- submission
\* the part of a submission both call sites share: reset the flag, publish
\* the pending list, create the cursor and start the workers
\* mutant: the flag is left as the earlier run set it
FlagAtSubmitKept(flag) == flag

\* cancelledRef.current = false, at the start of every submission
FlagAtSubmit(flag) == FALSE

StartRun(list) ==
    /\ cancelledRef' = FlagAtSubmit(cancelledRef)
    /\ isProcessing' = TRUE
    /\ showResults' = TRUE
    /\ results' = InitialResults(list)
    /\ itemList' = list
    /\ nextIndex' = 0
    /\ totalCount' = Len(list)
    /\ workers' = [w \in 1..WorkerCount(concurrency, Len(list)) |->
                      [pc |-> "ready", i |-> -1]]
    /\ phase' = "running"
    /\ claimLog' = <<>>
    /\ invoked' = [k \in 1..Len(list) |-> 0]
    /\ outcomeOf' = [k \in 1..Len(list) |-> NoOutcome]
    /\ sweeps' = 0
    /\ atCancel' = NoSnapshot
    /\ statusLog' = [k \in 1..Len(list) |-> <<>>]

\* BatchCookieModal.handleSubmit up to await Promise.allSettled(workers);
\* with no non-blank line it returns at once and changes nothing
SubmitCookies ==
    /\ LET rawLines == RawLinesOf(cookies)
           uniqueLines == UniqueLines(rawLines)
       IN  /\ Len(rawLines) # 0
           /\ removedCount' = Len(rawLines) - Len(uniqueLines)
           /\ StartRun(uniqueLines)
    /\ UNCHANGED << site, cookies, organizationUuids, concurrency, closed,
                    cancelCalls >>
    /\ UNCHANGED listVars

\* the submit button, rendered only while the form is shown
HandleSubmit ==
    /\ site = "import" /\ ~showResults /\ ~closed /\ phase = "idle"
    /\ SubmitCookies

\* BatchRefreshModal.startProcessing up to await Promise.allSettled(workers)
RefreshAll ==
    /\ StartRun(organizationUuids)
    /\ UNCHANGED << site, cookies, organizationUuids, concurrency, closed,
                    removedCount, cancelCalls >>
    /\ UNCHANGED listVars

\* the start button, rendered only while no results are shown
StartProcessing ==
    /\ site = "refresh" /\ ~showResults /\ ~closed /\ phase = "idle"
    /\ RefreshAll

\* ------------------------------------------------------------- workers
\* const i = nextIndex++, by worker w
Claim(w) ==
    /\ phase = "running"
    /\ w \in WorkerIds
    /\ workers[w].pc = "ready"
    /\ nextIndex' = AdvanceCursor(nextIndex)
    /\ claimLog' = Append(claimLog,
                      [i |-> ClaimedIndex(nextIndex), cancelled |-> cancelledRef])

\* if (i >= totalCount) return
WorkerExhausted(w) ==
    /\ Claim(w)
    /\ ClaimedIndex(nextIndex) >= totalCount
    /\ workers' = [workers EXCEPT ![w].pc = "exited"]
    /\ UNCHANGED << site, cookies, organizationUuids, concurrency, isProcessing,
                    showResults, results, cancelledRef, itemList, totalCount,
                    phase, closed, removedCount, invoked, outcomeOf, sweeps,
                    cancelCalls, atCancel, statusLog >>
    /\ UNCHANGED listVars

\* mutant: continue instead of return - the worker goes on to the next index
WorkerAfterCancelContinues == "ready"

\* where the worker is after it has found the flag set: return
WorkerAfterCancel == "exited"

\* if (cancelledRef.current) { mark i cancelled if still pending; return }
WorkerObservesCancel(w) ==
    /\ Claim(w)
    /\ ClaimedIndex(nextIndex) < totalCount
    /\ CancelRequested(cancelledRef)
    /\ results' = MarkCancelledIfPending(results, ClaimedIndex(nextIndex))
    /\ statusLog' = LogWrites(statusLog, results, results')
    /\ workers' = [workers EXCEPT ![w].pc = WorkerAfterCancel]
    /\ UNCHANGED << site, cookies, organizationUuids, concurrency, isProcessing,
                    showResults, cancelledRef, itemList, totalCount, phase,
                    closed, removedCount, invoked, outcomeOf, sweeps, cancelCalls,
                    atCancel >>
    /\ UNCHANGED listVars

\* mutant: return instead of continue - the worker ends at the invalid line
WorkerAfterInvalidReturns == "exited"

\* where the worker is after the error write of an invalid line: continue,
\* back at the head of while (true)
WorkerAfterInvalid == "ready"

\* import only: the item is marked processing, fails validateAndProcessCookie,
\* is marked error without a remote call, and the loop continues
WorkerRejectsInvalid(w) ==
    /\ Claim(w)
    /\ ClaimedIndex(nextIndex) < totalCount
    /\ ~CancelRequested(cancelledRef)
    /\ site = "import"
    /\ ~validateAndProcessCookie(itemList[ClaimedIndex(nextIndex) + 1]).isValid
    /\ LET marked == MarkProcessing(results, ClaimedIndex(nextIndex))
       IN  /\ results' = MarkInvalid(marked, ClaimedIndex(nextIndex))
           /\ statusLog' = LogWrites(LogWrites(statusLog, results, marked),
                                     marked, results')
    /\ workers' = [workers EXCEPT ![w].pc = WorkerAfterInvalid]
    /\ UNCHANGED << site, cookies, organizationUuids, concurrency, isProcessing,
                    showResults, cancelledRef, itemList, totalCount, phase,
                    closed, removedCount, invoked, outcomeOf, sweeps, cancelCalls,
                    atCancel >>
    /\ UNCHANGED listVars

\* mutant: a call is made, and made again
InvocationsWithRetry(n) == n + 2

\* calls made for an index once its iteration has reached the await: the
\* one call of the try block, no loop around it
Invocations(n) == n + 1

\* the item is marked processing and the remote operation is invoked
\* (await accountsApi.create / accountsApi.refreshAccount)
WorkerInvokes(w) ==
    /\ Claim(w)
    /\ ClaimedIndex(nextIndex) < totalCount
    /\ ~CancelRequested(cancelledRef)
    /\ site = "import" =>
          validateAndProcessCookie(itemList[ClaimedIndex(nextIndex) + 1]).isValid
    /\ results' = MarkProcessing(results, ClaimedIndex(nextIndex))
    /\ statusLog' = LogWrites(statusLog, results, results')
    /\ invoked' = [invoked EXCEPT ![ClaimedIndex(nextIndex) + 1] =
                      Invocations(@)]
    /\ workers' = [workers EXCEPT ![w] = [pc |-> "await",
                                          i |-> ClaimedIndex(nextIndex)]]
    /\ UNCHANGED << site, cookies, organizationUuids, concurrency, isProcessing,
                    showResults, cancelledRef, itemList, totalCount, phase,
                    closed, removedCount, outcomeOf, sweeps, cancelCalls, atCancel >>
    /\ UNCHANGED listVars

\* mutant: no try/catch - a rejected call ends the worker
WorkerAfterReturnThrows(ok) == IF ok THEN "ready" ELSE "exited"

\* where the worker is after the try block's success write or the catch
\* block's error write: back at the head of while (true)
WorkerAfterReturn(ok) == "ready"

\* the awaited call returns: the try block's success write or the catch
\* block's error write, then back to the head of the loop
OperationReturns(w) ==
    /\ phase = "running"
    /\ w \in WorkerIds
    /\ workers[w].pc = "await"
    /\ \E outcome \in OpOutcomes :
          /\ results' = IF outcome.ok
                        THEN MarkSuccess(results, workers[w].i,
                                         ResponsePayload(site))
                        ELSE MarkError(results, workers[w].i,
                                       ErrorMessage(site, outcome))
          /\ statusLog' = LogWrites(statusLog, results, results')
          /\ outcomeOf' = [outcomeOf EXCEPT ![workers[w].i + 1] =
                              IF outcome.ok
                              THEN [result |-> "ok", message |-> Undefined]
                              ELSE [result |-> "fail",
                                    message |-> ErrorMessage(site, outcome)]]
          /\ workers' = [workers EXCEPT ![w] =
                            [pc |-> WorkerAfterReturn(outcome.ok), i |-> -1]]
    /\ UNCHANGED << site, cookies, organizationUuids, concurrency, isProcessing,
                    showResults, cancelledRef, itemList, nextIndex, totalCount,
                    phase, closed, removedCount, claimLog, invoked, sweeps,
                    cancelCalls, atCancel >>
    /\ UNCHANGED listVars

\* mutant: Promise.race - the first settled worker ends the wait
AnySettled == Live # WorkerIds \/ WorkerIds = {}

\* mutant: the wait ends as soon as no call is awaited
NoneInFlight == InFlight = {}

\* mutant: the wait ends only once the cursor has passed the last item
QueueDrained == Live = {} /\ nextIndex >= totalCount

\* await Promise.allSettled(workers): every processOne() promise has settled
AllSettled == Live = {}

\* ----------------------------------------------------------- completion
\* after await Promise.allSettled(workers): the sweep, then setIsProcessing(false)
Complete ==
    /\ phase = "running"
    /\ AllSettled
    /\ IF cancelledRef
       THEN /\ results' = SweepPending(results)
            /\ sweeps' = sweeps + 1
       ELSE UNCHANGED << results, sweeps >>
    /\ statusLog' = LogWrites(statusLog, results, results')
    /\ isProcessing' = FALSE
    /\ phase' = "done"
    /\ UNCHANGED << site, cookies, organizationUuids, concurrency, showResults,
                    cancelledRef, itemList, nextIndex, totalCount, workers,
                    closed, removedCount, claimLog, invoked, outcomeOf,
                    cancelCalls, atCancel >>
    /\ UNCHANGED listVars

\* --------------------------------------------------------- cancellation
\* mutant: the handler toggles the flag
SetCancelledToggle(flag) == ~flag

\* cancelledRef.current = true
SetCancelled(flag) == TRUE

CancelEffect ==
    /\ cancelledRef' = SetCancelled(cancelledRef)
    /\ cancelCalls' = cancelCalls + 1
    /\ atCancel' = IF atCancel.taken THEN atCancel
                   ELSE [taken |-> TRUE,
                         processing |-> { k \in DOMAIN results :
                                            results[k].status = "processing" }]

\* the event loop can run a UI handler during a run: some remote call is
\* awaited and no worker stands in the middle of its synchronous segment
BetweenTasks ==
    /\ InFlight # {}
    /\ \A w \in Live : workers[w].pc = "await"

\* the cancel button, rendered only while isProcessing
HandleCancel ==
    /\ isProcessing /\ ~closed
    /\ BetweenTasks
    /\ cancelCalls < MaxCancelCalls
    /\ CancelEffect
    /\ UNCHANGED << site, cookies, organizationUuids, concurrency, isProcessing,
                    showResults, results, itemList, nextIndex, totalCount,
                    workers, phase, closed, removedCount, claimLog, invoked,
                    outcomeOf, sweeps, statusLog >>
    /\ UNCHANGED listVars

\* mutant: closing the modal resets the results
ResultsClearedOnClose(prev) == <<>>

\* handleClose writes no state of its own: the results stay as they are
ResultsAfterClose(prev) == prev

\* mutant: handleClose without the isProcessing test
CloseCallsOnCloseAlways(processing) == TRUE

\* handleClose reaches onClose() only past if (isProcessing) { ...; return }
CloseCallsOnClose(processing) == ~processing

\* handleClose: cancels while a run is active, closes otherwise
HandleClose ==
    /\ ~closed
    /\ IF ~CloseCallsOnClose(isProcessing)
       THEN /\ BetweenTasks
            /\ cancelCalls < MaxCancelCalls
            /\ CancelEffect
            /\ UNCHANGED << closed, results >>
       ELSE /\ closed' = TRUE
            /\ results' = ResultsAfterClose(results)
            /\ UNCHANGED << cancelledRef, cancelCalls, atCancel >>
    /\ UNCHANGED << site, cookies, organizationUuids, concurrency, isProcessing,
                    showResults, itemList, nextIndex, totalCount,
                    workers, phase, removedCount, claimLog, invoked, outcomeOf,
                    sweeps, statusLog >>
    /\ UNCHANGED listVars

Next ==
    \/ SetCookies
    \/ SetConcurrency
    \/ HandleSubmit
    \/ StartProcessing
    \/ \E w \in WorkerIds : WorkerExhausted(w)
    \/ \E w \in WorkerIds : WorkerObservesCancel(w)
    \/ \E w \in WorkerIds : WorkerRejectsInvalid(w)
    \/ \E w \in WorkerIds : WorkerInvokes(w)
    \/ \E w \in WorkerIds : OperationReturns(w)
    \/ Complete
    \/ HandleCancel
    \/ HandleClose

Spec == Init /\ [][Next]_vars

\* handleCancel called at a step boundary the event loop does not yield at:
\* a worker stands at the head of its loop, or all workers have exited and
\* the continuation after Promise.allSettled has not run yet
HandleCancelAnyTime ==
    /\ isProcessing /\ ~closed
    /\ ~BetweenTasks
    /\ cancelCalls < MaxCancelCalls
    /\ CancelEffect
    /\ UNCHANGED << site, cookies, organizationUuids, concurrency, isProcessing,
                    showResults, results, itemList, nextIndex, totalCount,
                    workers, phase, closed, removedCount, claimLog, invoked,
                    outcomeOf, sweeps, statusLog >>
    /\ UNCHANGED listVars

NextAnyTime ==
    \/ SetCookies
    \/ SetConcurrency
    \/ HandleSubmit
    \/ StartProcessing
    \/ \E w \in WorkerIds : WorkerExhausted(w)
    \/ \E w \in WorkerIds : WorkerObservesCancel(w)
    \/ \E w \in WorkerIds : WorkerRejectsInvalid(w)
    \/ \E w \in WorkerIds : WorkerInvokes(w)
    \/ \E w \in WorkerIds : OperationReturns(w)
    \/ Complete
    \/ HandleCancel
    \/ HandleClose
    \/ HandleCancelAnyTime

SpecAnyTime == Init /\ [][NextAnyTime]_vars

\* handleSubmit / startProcessing called once more on the same component
\* after a completed run. The controls rendered after a run do not offer
\* this; it is the case of a second submission of one component instance.
HandleSubmitAgain ==
    /\ site = "import" /\ phase = "done" /\ ~isProcessing /\ ~closed
    /\ SubmitCookies

StartProcessingAgain ==
    /\ site = "refresh" /\ phase = "done" /\ ~isProcessing /\ ~closed
    /\ RefreshAll

NextResubmit ==
    \/ SetCookies
    \/ SetConcurrency
    \/ HandleSubmit
    \/ StartProcessing
    \/ \E w \in WorkerIds : WorkerExhausted(w)
    \/ \E w \in WorkerIds : WorkerObservesCancel(w)
    \/ \E w \in WorkerIds : WorkerRejectsInvalid(w)
    \/ \E w \in WorkerIds : WorkerInvokes(w)
    \/ \E w \in WorkerIds : OperationReturns(w)
    \/ Complete
    \/ HandleCancel
    \/ HandleClose
    \/ HandleSubmitAgain
    \/ StartProcessingAgain

SpecResubmit == Init /\ [][NextResubmit]_vars

\* what runs without the user: the synchronous segments of the workers, the
\* return of an awaited call, and the continuation after Promise.allSettled
PoolStep ==
    \/ \E w \in WorkerIds : WorkerExhausted(w)
    \/ \E w \in WorkerIds : WorkerObservesCancel(w)
    \/ \E w \in WorkerIds : WorkerRejectsInvalid(w)
    \/ \E w \in WorkerIds : WorkerInvokes(w)
    \/ \E w \in WorkerIds : OperationReturns(w)
    \/ Complete

\* the event loop runs every ready continuation, and every invoked remote
\* call returns; the user's actions are under no obligation to happen
SpecFair == Spec /\ WF_vars(PoolStep)

\* ------------------------------------------------------- useAccountList
Max(a, b) == IF a >= b THEN a ELSE b

\* String.prototype.toLowerCase, per character
LowerChar(c) == IF c = "A" THEN "a" ELSE IF c = "B" THEN "b" ELSE c
ToLowerCase(t) == [n \in DOMAIN t |-> LowerChar(t[n])]

\* String.prototype.includes
Includes(t, q) ==
    \E k \in 0..(Len(t) - Len(q)) : SubSeq(t, k + 1, k + Len(q)) = q

\* the predicate of accounts.filter(...)
MatchesFilters(account) ==
    /\ ~(/\ deferredSearchQuery # <<>>
         /\ ~Includes(ToLowerCase(account.organization_uuid),
                      ToLowerCase(deferredSearchQuery)))
    /\ ~(statusFilter # "all" /\ account.status # statusFilter)
    /\ ~(authTypeFilter # "all" /\ account.auth_type # authTypeFilter)
    /\ ~(accountTypeFilter = "max" /\ ~account.is_max)
    /\ ~(accountTypeFilter = "pro" /\ ~account.is_pro)
    /\ ~(accountTypeFilter = "free" /\ (account.is_pro \/ account.is_max))

filteredAccounts == SelectSeq(accounts, MatchesFilters)

\* sortedAccounts is filteredAccounts, or a sorted copy of it: the same
\* accounts in another order
totalFiltered == Len(filteredAccounts)

\* Math.max(1, Math.ceil(totalFiltered / pageSize))
totalPages == Max(1, (totalFiltered + pageSize - 1) \div pageSize)

\* length of sortedAccounts.slice(start, start + pageSize)
paginatedCount ==
    LET start == (page - 1) * pageSize
    IN  Max(0, Min(totalFiltered, start + pageSize) - Min(totalFiltered, start))

\* setAccounts(list), called by the page with the list the server returned;
\* it is the bare state setter, the page stays as it is
setAccounts(list) ==
    /\ accounts' = list
    /\ UNCHANGED << searchQuery, deferredSearchQuery, statusFilter,
                    authTypeFilter, accountTypeFilter, sortField,
                    sortDirection, page, pageSize >>
    /\ UNCHANGED modalVars

\* mutant: a setter that leaves the page where it is
PageAfterChangeKept == page

\* setPage(1), the last statement of every filter, page size and sort setter
PageAfterChange == 1

setSearchQuery(query) ==
    /\ searchQuery' = query
    /\ page' = PageAfterChange
    /\ UNCHANGED << accounts, deferredSearchQuery, statusFilter,
                    authTypeFilter, accountTypeFilter, sortField,
                    sortDirection, pageSize >>
    /\ UNCHANGED modalVars

\* useDeferredValue: the render that follows a change of searchQuery still
\* sees the old value, a later render the new one
DeferredRender ==
    /\ deferredSearchQuery # searchQuery
    /\ deferredSearchQuery' = searchQuery
    /\ UNCHANGED << accounts, searchQuery, statusFilter, authTypeFilter,
                    accountTypeFilter, sortField, sortDirection, page,
                    pageSize >>
    /\ UNCHANGED modalVars

setStatusFilter(filter) ==
    /\ statusFilter' = filter
    /\ page' = PageAfterChange
    /\ UNCHANGED << accounts, searchQuery, deferredSearchQuery, authTypeFilter,
                    accountTypeFilter, sortField, sortDirection, pageSize >>
    /\ UNCHANGED modalVars

setAuthTypeFilter(filter) ==
    /\ authTypeFilter' = filter
    /\ page' = PageAfterChange
    /\ UNCHANGED << accounts, searchQuery, deferredSearchQuery, statusFilter,
                    accountTypeFilter, sortField, sortDirection, pageSize >>
    /\ UNCHANGED modalVars

setAccountTypeFilter(filter) ==
    /\ accountTypeFilter' = filter
    /\ page' = PageAfterChange
    /\ UNCHANGED << accounts, searchQuery, deferredSearchQuery, statusFilter,
                    authTypeFilter, sortField, sortDirection, pageSize >>
    /\ UNCHANGED modalVars

setPageSize(size) ==
    /\ pageSize' = size
    /\ page' = PageAfterChange
    /\ UNCHANGED << accounts, searchQuery, deferredSearchQuery, statusFilter,
                    authTypeFilter, accountTypeFilter, sortField,
                    sortDirection >>
    /\ UNCHANGED modalVars

\* mutant: a two-state toggle - descending goes back to ascending
ToggledSortTwoState(field) ==
    IF sortField # field THEN [field |-> field, direction |-> "asc"]
    ELSE IF sortDirection = "asc" THEN [field |-> field, direction |-> "desc"]
    ELSE [field |-> field, direction |-> "asc"]

\* the sort state toggleSort(field) writes
ToggledSort(field) ==
    IF sortField # field THEN [field |-> field, direction |-> "asc"]
    ELSE IF sortDirection = "asc" THEN [field |-> sortField, direction |-> "desc"]
    ELSE [field |-> Null, direction |-> Null]

toggleSort(field) ==
    /\ sortField' = ToggledSort(field).field
    /\ sortDirection' = ToggledSort(field).direction
    /\ page' = PageAfterChange
    /\ UNCHANGED << accounts, searchQuery, deferredSearchQuery, statusFilter,
                    authTypeFilter, accountTypeFilter, pageSize >>
    /\ UNCHANGED modalVars

setSort(field, direction) ==
    /\ sortField' = field
    /\ sortDirection' = direction
    /\ page' = PageAfterChange
    /\ UNCHANGED << accounts, searchQuery, deferredSearchQuery, statusFilter,
                    authTypeFilter, accountTypeFilter, pageSize >>
    /\ UNCHANGED modalVars

\* the calls of onSetSort in SortSheetContent: the default entry, another
\* field of the list, and the two direction buttons (enabled with a field)
SortSheetCalls ==
    { <<Null, Null>> }
      \cup { <<f, "asc">> : f \in SortOptionFields \ {sortField} }
      \cup (IF sortField # Null
            THEN { <<sortField, d>> : d \in SortDirections } ELSE {})

\* setPage as AccountPagination calls it
setPage(p) ==
    /\ page' = p
    /\ UNCHANGED << accounts, searchQuery, deferredSearchQuery, statusFilter,
                    authTypeFilter, accountTypeFilter, sortField,
                    sortDirection, pageSize >>
    /\ UNCHANGED modalVars

\* onClick={() => onPageChange(page - 1)} disabled={page <= 1}
PreviousPage == ~(page <= 1) /\ setPage(page - 1)

\* onClick={() => onPageChange(page + 1)} disabled={page >= totalPages}
NextPage == ~(page >= totalPages) /\ setPage(page + 1)

NextList ==
    \/ \E list \in AccountLists : setAccounts(list)
    \/ \E query \in SearchQueries : setSearchQuery(query)
    \/ DeferredRender
    \/ \E filter \in StatusFilters : setStatusFilter(filter)
    \/ \E filter \in AuthTypeFilters : setAuthTypeFilter(filter)
    \/ \E filter \in AccountTypeFilters : setAccountTypeFilter(filter)
    \/ \E size \in PAGE_SIZE_OPTIONS : setPageSize(size)
    \/ \E field \in SortFields : toggleSort(field)
    \/ \E call \in SortSheetCalls : setSort(call[1], call[2])
    \/ PreviousPage
    \/ NextPage

\* the account page with no modal in use
InitList == Init /\ site = "import"

SpecList == InitList /\ [][NextList]_vars

TypeOK ==
    /\ site \in Sites
    /\ isProcessing \in BOOLEAN /\ cancelledRef \in BOOLEAN
    /\ phase \in {"idle", "running", "done"}
    /\ nextIndex \in Nat
    /\ \A w \in WorkerIds : workers[w].pc \in {"ready", "await", "exited"}
    /\ \A k \in DOMAIN results :
          results[k].status \in {"pending", "processing"} \cup Terminal

\* =============================================================== claims
Indices == DOMAIN results
StatusOf(k) == results[k].status
ClaimedIndices == { claimLog[a].i : a \in DOMAIN claimLog }
ClaimsAfterCancel == { a \in DOMAIN claimLog : claimLog[a].cancelled }
Exited == WorkerIds \ Live

PendingToCancelled(k) ==
    /\ k \in DOMAIN results'
    /\ StatusOf(k) = "pending"
    /\ results'[k].status = "cancelled"

\* C1 - Exhaustiveness: once a run has completed (isProcessing set back to
\* false) every item is success, error or cancelled, and
\* successCount + errorCount + cancelledCount equals the item count.
C1_Exhaustiveness ==
    phase = "done" =>
        /\ ~isProcessing
        /\ Len(results) = totalCount
        /\ \A k \in Indices : StatusOf(k) \in Terminal
        /\ getSuccessCount + getErrorCount + getCancelledCount = totalCount

C1_Witness ==
    /\ phase = "done"
    /\ totalCount >= 2
    /\ getCancelledCount >= 1
    /\ getErrorCount >= 1

\* C2 - At-most-once claim: no value is handed out twice by nextIndex++,
\* whichever workers ask and in whatever order.
C2_AtMostOnceClaim ==
    \A a, b \in DOMAIN claimLog : a # b => claimLog[a].i # claimLog[b].i

C2_Witness ==
    /\ Cardinality(InFlight) >= 2
    /\ \E v, w \in InFlight : v # w /\ workers[v].i # workers[w].i

\* C3 - Bounded concurrency: the number of items in processing, and the
\* number of remote operations in flight, never exceed
\* min(concurrency, totalCount).
C3_BoundedConcurrency ==
    phase # "idle" =>
        /\ getProcessingCount <= Min(concurrency, totalCount)
        /\ Cardinality(InFlight) <= Min(concurrency, totalCount)

C3_Witness ==
    /\ phase = "running"
    /\ totalCount > concurrency
    /\ getProcessingCount = concurrency
    /\ getPendingCount >= 1

\* cancel was first called when no claimed item was unfinished
C4_CancelBeforeRestClaimed == atCancel.taken /\ atCancel.processing = {}

\* C4 (checked under SpecAnyTime) - Cancellation correctness: if cancel is
\* first called when k items are success or error and no other item has been
\* claimed (none is processing), then from that moment the only change to any
\* item is pending to cancelled, and at completion no item is pending: the k
\* items are still success or error as they were, and the other
\* totalCount - k items are cancelled.
C4_CancellationCorrectness ==
    /\ [][ C4_CancelBeforeRestClaimed =>
             \A k \in Indices :
                 \/ k \in DOMAIN results' /\ results'[k] = results[k]
                 \/ /\ PendingToCancelled(k)
                    /\ results'[k] = [results[k] EXCEPT !.status = "cancelled"] ]_vars
    /\ [](( phase = "done" /\ C4_CancelBeforeRestClaimed ) =>
             \A k \in Indices : StatusOf(k) \in Terminal)

C4_Witness ==
    /\ phase = "done"
    /\ C4_CancelBeforeRestClaimed
    /\ getSuccessCount + getErrorCount >= 1
    /\ getCancelledCount >= 2

\* C5 - Terminal statuses are absorbing: no step changes the record of an
\* item whose status is success, error or cancelled.
C5_TerminalAbsorbing ==
    [][ \A k \in Indices :
            (StatusOf(k) \in Terminal /\ k \in DOMAIN results')
                => results'[k] = results[k] ]_vars

C5_Witness ==
    /\ sweeps = 1
    /\ \E k \in Indices : StatusOf(k) = "error"
    /\ \E k \in Indices : StatusOf(k) = "cancelled" /\ (k - 1) \notin ClaimedIndices

C7_InFlightSurvivesCancel ==
    atCancel.taken =>
        \A k \in Indices :
            k \in atCancel.processing =>
                \/ /\ StatusOf(k) = "processing"
                   /\ outcomeOf[k].result = "none"
                   /\ phase = "running"
                \/ /\ StatusOf(k) = "success"
                   /\ outcomeOf[k].result = "ok"
                   /\ results[k].payload # NoPayload
                \/ /\ StatusOf(k) = "error"
                   /\ outcomeOf[k].result = "fail"
                   /\ results[k].error # Undefined

C7_Witness ==
    /\ phase = "done"
    /\ atCancel.taken
    /\ \E k \in atCancel.processing : StatusOf(k) = "success"
    /\ \E k \in atCancel.processing : StatusOf(k) = "error"

varsButCancelCalls ==
    << site, cookies, organizationUuids, concurrency, isProcessing,
       showResults, results, cancelledRef, itemList, nextIndex, totalCount,
       workers, phase, closed, removedCount, claimLog, invoked, outcomeOf,
       sweeps, atCancel, statusLog, accounts, searchQuery,
       deferredSearchQuery, statusFilter, authTypeFilter, accountTypeFilter,
       sortField, sortDirection, page, pageSize >>

\* C10 - Idempotent cancellation: every call of cancel leaves the flag set,
\* and a call made when the flag is already set changes nothing at all, so a
\* run cancelled several times continues exactly as one cancelled once.
C10_IdempotentCancel ==
    [][ cancelCalls' # cancelCalls =>
            /\ cancelledRef'
            /\ cancelledRef => UNCHANGED varsButCancelCalls ]_vars

C10_Witness ==
    /\ cancelCalls >= 2
    /\ cancelledRef
    /\ phase = "running"
    /\ InFlight # {}

\* the worker whose awaited call is the one of index k
WorkerOf(k) == { w \in InFlight : workers[w].i = k - 1 }

\* C11 - Isolation of failure: a failing operation is recorded as error on
\* its own item and on no other; the worker that ran it does not exit but is
\* back at the head of its loop, and in a run without cancellation every
\* item still reaches success or error.
C11_IsolationOfFailure ==
    /\ [][ \A k \in Indices :
              (outcomeOf[k].result = "none" /\ outcomeOf'[k].result = "fail") =>
                  /\ StatusOf(k) = "processing"
                  /\ results'[k].status = "error"
                  /\ \A j \in Indices \ {k} : results'[j] = results[j]
                  /\ \A w \in WorkerOf(k) : workers'[w].pc = "ready"
                  /\ \A w \in WorkerIds \ WorkerOf(k) : workers'[w] = workers[w]
                  /\ phase' = "running" /\ isProcessing' ]_vars
    /\ [](  (phase = "done" /\ ~cancelledRef) =>
               \A k \in Indices : StatusOf(k) \in {"success", "error"} )

C11_Witness ==
    /\ phase = "done"
    /\ ~cancelledRef
    /\ Cardinality(WorkerIds) = 1
    /\ \E k, j \in Indices :
          /\ k < j
          /\ outcomeOf[k].result = "fail" /\ StatusOf(k) = "error"
          /\ outcomeOf[j].result = "ok" /\ StatusOf(j) = "success"

\* the values of a sequence, and where a value occurs first
Range(s) == { s[n] : n \in DOMAIN s }
FirstIndex(s, x) == CHOOSE n \in DOMAIN s : s[n] = x /\ \A m \in 1..(n - 1) : s[m] # x

\* C12 - Deduplication in the bulk import: the item list of a run holds each
\* distinct non-blank line of the input exactly once, in the order of first
\* occurrence, and the removed count is the number of lines minus the number
\* of distinct lines.
C12_Deduplication ==
    (site = "import" /\ phase # "idle") =>
        LET rawLines == RawLinesOf(cookies)
        IN  /\ Range(itemList) = Range(rawLines)
            /\ \A a, b \in DOMAIN itemList :
                  a < b => FirstIndex(rawLines, itemList[a])
                              < FirstIndex(rawLines, itemList[b])
            /\ Len(itemList) = Cardinality(Range(rawLines))
            /\ removedCount = Len(rawLines) - Cardinality(Range(rawLines))
            /\ Len(results) = Len(itemList)
            /\ \A k \in Indices : results[k].item = itemList[k]

C12_Witness ==
    /\ site = "import" /\ phase # "idle"
    /\ LET rawLines == RawLinesOf(cookies)
       IN  /\ Len(rawLines) = 3
           /\ rawLines[1] = rawLines[3] /\ rawLines[1] # rawLines[2]
    /\ Len(itemList) = 2
    /\ removedCount = 1

\* the line of item k fails the import's format validation
InvalidFormat(k) ==
    site = "import" /\ ~validateAndProcessCookie(itemList[k]).isValid

C14_PoolSizing ==
    phase # "idle" =>
        /\ Cardinality(WorkerIds) <= concurrency
        /\ Cardinality(WorkerIds) <= totalCount
        /\ Cardinality(WorkerIds) \in {concurrency, totalCount}

C14_Witness ==
    /\ phase = "running"
    /\ totalCount = 2
    /\ concurrency = 3
    /\ Cardinality(WorkerIds) = 2
    /\ InFlight = WorkerIds

\* C16 - Empty batches are rejected at submission: where the item list is
\* empty no run exists - isProcessing and showResults are false, results are
\* as they were, no worker has been started - in the import and in the
\* refresh modal alike.
C16_EmptyBatchRejected ==
    totalCount = 0 =>
        /\ ~isProcessing /\ ~showResults
        /\ results = <<>>
        /\ WorkerIds = {}
        /\ phase = "idle"

\* C17 - Result record invariant: in every state a success item carries its
\* payload (organizationUuid in the import; previousStatus and newStatus in
\* the refresh), an error item carries a non-empty error message, and a
\* cancelled, pending or processing item carries neither.
C17_ResultRecord ==
    \A k \in Indices :
        /\ StatusOf(k) = "success" =>
              IF site = "import"
              THEN results[k].payload.organizationUuid # Undefined
              ELSE /\ results[k].payload.previousStatus # Undefined
                   /\ results[k].payload.newStatus # Undefined
        /\ StatusOf(k) = "error" =>
              results[k].error # Undefined /\ results[k].error # ""
        /\ StatusOf(k) \in {"cancelled", "pending", "processing"} =>
              results[k].error = Undefined /\ results[k].payload = NoPayload

C17_Witness ==
    /\ phase = "done"
    /\ \E a, b, c \in Indices :
          /\ StatusOf(a) = "success" /\ results[a].payload # NoPayload
          /\ StatusOf(b) = "error" /\ outcomeOf[b].result = "fail"
          /\ results[b].error \in {DefaultAddError, DefaultRefreshError}
          /\ StatusOf(c) = "cancelled"

\* C18 (as stated) - every item that is success or error had the remote
\* operation invoked exactly once, every cancelled item zero times, and no
\* item ever more than once.
C18_ExactlyOnceInvocation ==
    \A k \in Indices :
        /\ StatusOf(k) \in {"success", "error"} => invoked[k] = 1
        /\ StatusOf(k) = "cancelled" => invoked[k] = 0
        /\ invoked[k] <= 1

\* C18 (amended) - every success item, and every error item other than an
\* import line of invalid format, had the remote operation invoked exactly
\* once; an invalid line becomes error with no invocation; cancelled items
\* had none; no item is ever invoked a second time.
C18_AtMostOnceInvocation ==
    \A k \in Indices :
        /\ StatusOf(k) = "success" => invoked[k] = 1
        /\ StatusOf(k) = "error" =>
              invoked[k] = (IF InvalidFormat(k) THEN 0 ELSE 1)
        /\ StatusOf(k) = "processing" => invoked[k] = 1
        /\ StatusOf(k) \in {"cancelled", "pending"} => invoked[k] = 0
        /\ invoked[k] <= 1

C18_Witness ==
    /\ phase = "done"
    /\ \E a, b, c \in Indices :
          /\ StatusOf(a) = "success" /\ invoked[a] = 1
          /\ StatusOf(b) = "error" /\ InvalidFormat(b) /\ invoked[b] = 0
          /\ StatusOf(c) = "cancelled" /\ invoked[c] = 0

\* C19 - Progress aggregation: in every state the five status counts add up
\* to the number of items, the error count counts the error items only (no
\* cancelled one), and the progress reported is
\* 100 * (success + error + cancelled) / total, or 0 without results.
C19_ProgressAggregation ==
    /\ phase # "idle" => Len(results) = totalCount
    /\ getPendingCount + getProcessingCount + getSuccessCount
          + getErrorCount + getCancelledCount = Len(results)
    /\ getErrorCount = Cardinality({ k \in Indices : StatusOf(k) = "error" })
    /\ getErrorCount + getCancelledCount
          = Cardinality({ k \in Indices : StatusOf(k) \in {"error", "cancelled"} })
    /\ IF Len(results) = 0
       THEN getProgress.num = 0
       ELSE getProgress.num * Len(results) =
               100 * (getSuccessCount + getErrorCount + getCancelledCount)
                   * getProgress.den

C19_Witness ==
    /\ phase = "running"
    /\ getSuccessCount >= 1
    /\ getProcessingCount >= 1
    /\ getCancelledCount >= 1
    /\ getProgress.num > 0
    /\ getProgress.num < 100 * getProgress.den

\* C20 - Completion only after drain: isProcessing goes back to false only
\* in the step that follows the exit of every worker and applies the sweep;
\* a cancel call never ends the run by itself; and in no state is
\* isProcessing false while a remote call is in flight or an item is
\* processing.
C20_CompletionAfterDrain ==
    /\ [][ /\ (isProcessing /\ ~isProcessing') =>
                  /\ Live = {}
                  /\ InFlight = {}
                  /\ phase = "running" /\ phase' = "done"
                  /\ cancelledRef =>
                        /\ sweeps' = sweeps + 1
                        /\ \A k \in Indices : results'[k].status # "pending"
           /\ cancelCalls' # cancelCalls =>
                  /\ isProcessing' = isProcessing
                  /\ phase' = phase ]_vars
    /\ [](  ~isProcessing =>
               /\ InFlight = {}
               /\ getProcessingCount = 0
               /\ phase \in {"idle", "done"}
               /\ phase = "done" => Live = {} )

C20_Witness ==
    /\ phase = "done"
    /\ ~isProcessing
    /\ cancelCalls >= 1
    /\ sweeps = 1
    /\ atCancel.taken /\ Cardinality(atCancel.processing) >= 2
    /\ getCancelledCount >= 1
    /\ getSuccessCount >= 1

\* C21 - Termination: when the event loop keeps running ready continuations
\* and every invoked remote call returns, every run completes - all workers
\* have exited and isProcessing is false - whether or not cancel is called,
\* and whenever it is called. Stated as: a run is not in progress forever,
\* the only way out of a run in progress is its completion, and at
\* completion all workers have exited and isProcessing is false.
C21_Termination ==
    /\ <>[](phase # "running")
    /\ [][ phase = "running" => phase' \in {"running", "done"} ]_vars
    /\ []( phase = "done" => (~isProcessing /\ Live = {}) )

C21_Witness ==
    /\ phase = "done" /\ ~isProcessing /\ Live = {}
    /\ cancelCalls >= 1
    /\ nextIndex < totalCount
    /\ getCancelledCount >= 2

\* C22 - No index skipped: the cursor hands out 0, 1, 2, ... in strictly
\* increasing order without a gap, and in a run in which cancel is never
\* called every index 0..totalCount-1 has been claimed exactly once when the
\* pool has drained.
C22_NoIndexSkipped ==
    /\ \A a, b \in DOMAIN claimLog :
          a < b => claimLog[a].i < claimLog[b].i
    /\ \A a \in DOMAIN claimLog : claimLog[a].i = a - 1
    /\ (phase # "idle" /\ Live = {} /\ cancelCalls = 0) =>
          \A i \in 0..(totalCount - 1) :
              Cardinality({ a \in DOMAIN claimLog : claimLog[a].i = i }) = 1

C22_Witness ==
    /\ phase = "done"
    /\ cancelCalls = 0
    /\ totalCount = 3
    /\ Cardinality(WorkerIds) >= 2
    /\ Len(claimLog) = totalCount + Cardinality(WorkerIds)

\* C23 - Per-item ordering: the statuses written to an item are nothing,
\* processing, processing then success, processing then error, or cancelled
\* alone - so an item that is success or error was pending, then processing,
\* then that status, and nothing is ever written back to pending; an item
\* whose operation has been invoked was set to processing first.
C23_PerItemOrdering ==
    \A k \in Indices :
        /\ statusLog[k] \in { <<>>, <<"processing">>, <<"cancelled">>,
                               <<"processing", "success">>,
                               <<"processing", "error">> }
        /\ StatusOf(k) = (IF statusLog[k] = <<>> THEN "pending"
                          ELSE statusLog[k][Len(statusLog[k])])
        /\ StatusOf(k) \in {"success", "error"} =>
              statusLog[k] = <<"processing", StatusOf(k)>>
        /\ invoked[k] >= 1 =>
              statusLog[k] # <<>> /\ Head(statusLog[k]) = "processing"

C23_Witness ==
    /\ phase = "done"
    /\ \E a, b, c \in Indices :
          /\ statusLog[a] = <<"processing", "success">>
          /\ statusLog[b] = <<"processing", "error">> /\ invoked[b] = 1
          /\ statusLog[c] = <<"processing", "error">> /\ invoked[c] = 0

\* the items at the indices of S, in the order of the indices
RECURSIVE ItemsAt(_, _)
ItemsAt(S, k) ==
    IF k > Len(itemList) THEN <<>>
    ELSE (IF k \in S THEN <<itemList[k]>> ELSE <<>>) \o ItemsAt(S, k + 1)

\* C24 (as stated) - when a run has completed the items with status error
\* are exactly the submitted items whose operation failed, in submission
\* order.
C24_ErrorsAreFailedOperations ==
    phase = "done" =>
        /\ \A k \in Indices :
              StatusOf(k) = "error" <=> outcomeOf[k].result = "fail"
        /\ failedCookies =
              ItemsAt({ k \in Indices : outcomeOf[k].result = "fail" }, 1)

\* C24 (amended) - the item stored at an index never changes; a status write
\* of a worker changes the record of one index and of no other; and when a
\* run has completed the items with status error are exactly the submitted
\* items whose operation failed together with the import lines rejected
\* for their format, each with its own message, in submission order.
C24_FailedItemsRetryable ==
    /\ [][ (phase = "running" /\ phase' = "running") =>
              /\ Cardinality({ k \in Indices : results'[k] # results[k] }) <= 1
              /\ \A k \in Indices : results'[k].item = results[k].item ]_vars
    /\ [](  /\ phase # "idle" =>
                 \A k \in Indices : results[k].item = itemList[k]
            /\ phase = "done" =>
                 /\ \A k \in Indices :
                       /\ StatusOf(k) = "error" <=>
                             \/ outcomeOf[k].result = "fail"
                             \/ InvalidFormat(k) /\ StatusOf(k) # "cancelled"
                       /\ outcomeOf[k].result = "fail" =>
                             results[k].error = outcomeOf[k].message
                       /\ (InvalidFormat(k) /\ StatusOf(k) = "error") =>
                             results[k].error = InvalidFormatError
                 /\ failedCookies =
                       ItemsAt({ k \in Indices : StatusOf(k) = "error" }, 1) )

C24_Witness ==
    /\ phase = "done"
    /\ Cardinality(WorkerIds) >= 2
    /\ Len(failedCookies) = 2
    /\ \E a, b, c \in Indices :
          /\ a < b /\ b < c
          /\ outcomeOf[a].result = "fail"
          /\ StatusOf(b) = "success"
          /\ StatusOf(c) = "error"

\* C25 - No new work after cancellation: in a step taken while the
\* cancellation flag is set no item goes from pending to processing and no
\* remote operation is newly invoked, up to the end of the run.
C25_NoNewWorkAfterCancel ==
    [][ (cancelledRef /\ phase = "running") =>
            /\ invoked' = invoked
            /\ \A k \in Indices :
                  StatusOf(k) = "pending" => results'[k].status # "processing"
            /\ \A k \in Indices :
                  Len(statusLog'[k]) > Len(statusLog[k]) =>
                      statusLog'[k][Len(statusLog[k]) + 1] # "processing"
            /\ Cardinality(InFlight') <= Cardinality(InFlight) ]_vars

C25_Witness ==
    /\ phase = "done"
    /\ cancelCalls >= 1
    /\ Cardinality(WorkerIds) >= 2
    /\ \E a \in ClaimsAfterCancel :
          /\ claimLog[a].i < totalCount
          /\ invoked[claimLog[a].i + 1] = 0
    /\ \E k \in Indices : InvalidFormat(k) /\ StatusOf(k) = "cancelled"

\* C28 - Bulk refresh runs over a deduplicated list: whatever identifiers
\* are passed in, the items of a refresh run are pairwise different and the
\* refresh operation is invoked at most once per account in a run.
C28_RefreshListDeduplicated ==
    (site = "refresh" /\ phase # "idle") =>
        /\ \A a, b \in DOMAIN itemList :
              a # b => itemList[a] # itemList[b]
        /\ \A a, b \in Indices :
              (a # b /\ results[a].item = results[b].item) =>
                  invoked[a] + invoked[b] <= 1

\* C29 - A worker that finds the flag set after taking index i marks item i
\* cancelled only if it is pending, invokes nothing and exits; so after
\* cancel each worker still running takes at most one further index and the
\* cursor advances by at most the number of workers running at the cancel.
C29_WorkerObservesCancel ==
    /\ [][ (Len(claimLog') = Len(claimLog) + 1
              /\ claimLog'[Len(claimLog')].cancelled) =>
              LET i == claimLog'[Len(claimLog')].i
              IN  /\ invoked' = invoked
                  /\ Live' \subseteq Live
                  /\ Cardinality(Live') = Cardinality(Live) - 1
                  /\ InFlight' = InFlight
                  /\ \A k \in Indices :
                        results'[k] =
                          IF k = i + 1 /\ StatusOf(k) = "pending"
                          THEN [results[k] EXCEPT !.status = "cancelled"]
                          ELSE results[k] ]_vars
    /\ [](  atCancel.taken =>
               /\ Cardinality(ClaimsAfterCancel) + Cardinality(Live)
                     <= Cardinality(atCancel.processing)
               /\ \A a \in DOMAIN claimLog :
                     a > Len(claimLog) - Cardinality(ClaimsAfterCancel)
                        <=> claimLog[a].cancelled )

C29_Witness ==
    /\ atCancel.taken
    /\ Cardinality(atCancel.processing) = 2
    /\ Cardinality(ClaimsAfterCancel) = 2
    /\ \E a \in ClaimsAfterCancel :
          /\ claimLog[a].i < totalCount
          /\ StatusOf(claimLog[a].i + 1) = "cancelled"

\* the cookie_value accountsApi.create is called with for item k
CookieValue(k) == validateAndProcessCookie(itemList[k]).processedValue

\* C30 (as stated) - no two items of an import run cause accountsApi.create
\* to be invoked with the same normalized cookie_value.
C30_NoDuplicateCredential ==
    site = "import" =>
        \A a, b \in Indices :
            (a # b /\ invoked[a] >= 1 /\ invoked[b] >= 1) =>
                CookieValue(a) # CookieValue(b)

\* C30 (amended) - no two items of an import run are the same line as typed
\* (after trimming), and create is invoked at most once per item; lines that
\* differ as typed but normalize to the same cookie_value are separate
\* items, each with its own create call.
C30_NoDuplicateLine ==
    (site = "import" /\ phase # "idle") =>
        /\ \A a, b \in Indices : a # b => itemList[a] # itemList[b]
        /\ \A k \in Indices :
              /\ invoked[k] <= 1
              /\ invoked[k] = 1 => validateAndProcessCookie(itemList[k]).isValid
        /\ \A a, b \in Indices :
              (a # b /\ invoked[a] = 1 /\ invoked[b] = 1
                     /\ CookieValue(a) = CookieValue(b)) =>
                  Trim(itemList[a]) # Trim(itemList[b])

C30_Witness ==
    /\ site = "import"
    /\ removedCount >= 1
    /\ \E a, b \in Indices :
          /\ a # b
          /\ invoked[a] = 1 /\ invoked[b] = 1
          /\ CookieValue(a) = CookieValue(b)
          /\ StatusOf(a) = "success" /\ StatusOf(b) = "success"

\* a step that starts a run
Submission == phase # "running" /\ phase' = "running"

\* C26 - Each submission is a fresh run: the step that starts a run leaves
\* the cancellation flag false, the cursor at 0 and every item pending
\* without result, whatever an earlier run of the same component left
\* behind; a cancelled earlier run does not cancel the next one.
C26_FreshRun ==
    [][ Submission =>
            /\ ~cancelledRef'
            /\ nextIndex' = 0
            /\ isProcessing' /\ showResults'
            /\ Len(results') = totalCount' /\ Len(itemList') = totalCount'
            /\ \A k \in DOMAIN results' :
                  /\ results'[k].status = "pending"
                  /\ results'[k].error = Undefined
                  /\ results'[k].payload = NoPayload
                  /\ results'[k].item = itemList'[k]
            /\ \A w \in DOMAIN workers' : workers'[w].pc = "ready" ]_vars

C26_Witness ==
    /\ cancelCalls >= 1
    /\ ~cancelledRef
    /\ phase = "done"
    /\ totalCount >= 2
    /\ \A k \in Indices : StatusOf(k) \in {"success", "error"}
    /\ getSuccessCount >= 1

\* C27 - A completed run is immutable: once a run has completed no item
\* status or result changes unless a new submission is made; in particular
\* a close (or cancel) after completion changes no item.
C27_CompletedRunImmutable ==
    [][ (phase = "done" /\ ~Submission) =>
            /\ results' = results
            /\ statusLog' = statusLog
            /\ ~isProcessing' ]_vars

C27_Witness ==
    /\ phase = "done"
    /\ closed
    /\ getCancelledCount >= 1
    /\ getSuccessCount >= 1

\* C31 - Invalid-format items in the bulk import: a worker that takes, with
\* the flag not set, an item whose normalized value does not start with
\* 'sessionKey=sk-ant-sid01-' writes processing, then error with the format
\* message, invokes no remote create, and stays at the head of its loop for
\* the next claim; no create is ever invoked for such an item.
C31_InvalidFormatItems ==
    /\ [][ (/\ Len(claimLog') = Len(claimLog) + 1
            /\ ~claimLog'[Len(claimLog')].cancelled
            /\ claimLog'[Len(claimLog')].i < totalCount
            /\ InvalidFormat(claimLog'[Len(claimLog')].i + 1)) =>
              LET k == claimLog'[Len(claimLog')].i + 1
              IN  /\ StatusOf(k) = "pending"
                  /\ statusLog'[k] = <<"processing", "error">>
                  /\ results'[k].status = "error"
                  /\ results'[k].error = InvalidFormatError
                  /\ results'[k].payload = NoPayload
                  /\ invoked' = invoked
                  /\ outcomeOf' = outcomeOf
                  /\ workers' = workers
                  /\ \A j \in Indices : j # k => results'[j] = results[j] ]_vars
    /\ []( \A k \in Indices :
              InvalidFormat(k) =>
                  /\ invoked[k] = 0
                  /\ outcomeOf[k].result = "none"
                  /\ statusLog[k] \in { <<>>, <<"cancelled">>,
                                         <<"processing", "error">> }
                  /\ StatusOf(k) = "error" =>
                        results[k].error = InvalidFormatError
                  /\ (phase = "done" /\ ~cancelledRef) =>
                        StatusOf(k) = "error" )

C31_Witness ==
    /\ phase = "done"
    /\ Cardinality(WorkerIds) = 1
    /\ \E a, b \in Indices :
          /\ a < b
          /\ InvalidFormat(a) /\ statusLog[a] = <<"processing", "error">>
          /\ results[a].error = InvalidFormatError
          /\ StatusOf(b) = "success"

\* C32 - Closing while a run is active only cancels: a handleClose step taken
\* while isProcessing sets the cancellation flag and leaves the modal open;
\* onClose is called only when no run is active, so the modal is never
\* closed while an operation of its run is in flight.
C32_CloseWhileActiveOnlyCancels ==
    /\ [][ (isProcessing /\ HandleClose) =>
              /\ cancelledRef' /\ ~closed'
              /\ results' = results /\ workers' = workers ]_vars
    /\ [][ closed' # closed =>
              /\ closed'
              /\ ~isProcessing /\ phase # "running" /\ InFlight = {}
              /\ cancelledRef' = cancelledRef ]_vars
    /\ []( closed => (~isProcessing /\ phase # "running" /\ InFlight = {}) )

C32_Witness ==
    /\ closed
    /\ phase = "done"
    /\ cancelCalls = MaxCancelCalls
    /\ sweeps = 1
    /\ getCancelledCount >= 1

\* C33 - Progress is monotonic: in every step other than the start of a run
\* the number of terminal items (success + error + cancelled) does not
\* decrease, the progress percentage does not decrease, the pending count
\* does not increase, and no item leaves a terminal status.
C33_ProgressMonotonic ==
    [][ ~Submission =>
            /\ Len(results') = Len(results)
            /\ getSuccessCount' + getErrorCount' + getCancelledCount'
                  >= getSuccessCount + getErrorCount + getCancelledCount
            /\ getProgress'.num * getProgress.den
                  >= getProgress.num * getProgress'.den
            /\ getPendingCount' <= getPendingCount
            /\ \A k \in Indices :
                  StatusOf(k) \in Terminal => results'[k].status \in Terminal
      ]_vars

C33_Witness ==
    /\ phase = "done"
    /\ totalCount = 3
    /\ getSuccessCount = 1 /\ getErrorCount = 1 /\ getCancelledCount = 1
    /\ getProgress.num = 100 * getProgress.den
    /\ sweeps = 1

\* C34 - The account list page stays in range: after any sequence of
\* useAccountList operations 1 <= page <= totalPages, where
\* totalPages = max(1, ceil(totalFiltered / pageSize)).
C34_PageInRange == 1 <= page /\ page <= totalPages

\* C35 - The sort toggle is a three-state cycle: toggleSort(f) takes no sort
\* to (f, asc), (f, asc) to (f, desc), (f, desc) to no sort, and any state
\* with another field to (f, asc); the sort state is always no sort or a
\* field with a direction; and every toggleSort, setSort, filter setter and
\* setPageSize call leaves the page at 1.
C35_SortToggleCycle ==
    /\ [][ \A f \in SortFields :
              toggleSort(f) =>
                  /\ (sortField = Null /\ sortDirection = Null) =>
                        (sortField' = f /\ sortDirection' = "asc")
                  /\ (sortField = f /\ sortDirection = "asc") =>
                        (sortField' = f /\ sortDirection' = "desc")
                  /\ (sortField = f /\ sortDirection = "desc") =>
                        (sortField' = Null /\ sortDirection' = Null)
                  /\ sortField # f =>
                        (sortField' = f /\ sortDirection' = "asc")
                  /\ page' = 1 ]_vars
    /\ [][ (\/ \E call \in SortSheetCalls : setSort(call[1], call[2])
            \/ \E query \in SearchQueries : setSearchQuery(query)
            \/ \E filter \in StatusFilters : setStatusFilter(filter)
            \/ \E filter \in AuthTypeFilters : setAuthTypeFilter(filter)
            \/ \E filter \in AccountTypeFilters : setAccountTypeFilter(filter)
            \/ \E size \in PAGE_SIZE_OPTIONS : setPageSize(size)) =>
              page' = 1 ]_vars
    /\ [][ (\/ sortField' # sortField \/ sortDirection' # sortDirection
            \/ searchQuery' # searchQuery \/ statusFilter' # statusFilter
            \/ authTypeFilter' # authTypeFilter
            \/ accountTypeFilter' # accountTypeFilter
            \/ pageSize' # pageSize) =>
              page' = 1 ]_vars
    /\ []( \/ sortField = Null /\ sortDirection = Null
           \/ sortField \in SortFields /\ sortDirection \in SortDirections )

C35_Witness ==
    /\ sortField = "auth_type"
    /\ sortDirection = "desc"
    /\ page = 1
    /\ totalPages = 3
    /\ accountTypeFilter = "all"

====
